---- MODULE Spec2Model ----
(***************************************************************************)
(* mat-props: thermal conductivity and thermal expansion of composites and *)
(* honeycombs.  Three public functions, each: resolve the model number,    *)
(* evaluate the closed-form formulas inside catch_unwind, return [f64; 3]  *)
(* or an Error.                                                            *)
(*                                                                         *)
(* Arithmetic.  The source computes in f64 (IEEE-754 binary64).  TLC has   *)
(* 32-bit integers, so the model computes in an IEEE-754 binary format of  *)
(* the same kind with a 4-bit significand and exponents -9..4: signed      *)
(* zeros, subnormals, infinities, one NaN, round-to-nearest-even after     *)
(* every operation, overflow to infinity.  Every operator below rounds     *)
(* exactly where the f64 operation rounds.                                 *)
(***************************************************************************)
EXTENDS Integers, Sequences, FiniteSets, TLC

(***************************************************************************)
(* f64: the floating-point format.  A finite datum is (-1)^s * m * 2^e     *)
(* with m < 2^p; normal data have 2^(p-1) <= m and emin <= e <= emax,      *)
(* subnormal data and zero have e = emin.                                  *)
(***************************************************************************)
f64 == [p |-> 4, emin |-> -9, emax |-> 4]

RECURSIVE Pow2(_)
Pow2(n) == IF n <= 0 THEN 1 ELSE 2 * Pow2(n - 1)

RECURSIVE BitLen(_)
BitLen(n) == IF n = 0 THEN 0 ELSE 1 + BitLen(n \div 2)

RECURSIVE IPow(_, _)
IPow(b, k) == IF k = 0 THEN 1 ELSE b * IPow(b, k - 1)

Min2(x, y) == IF x <= y THEN x ELSE y
Max2(x, y) == IF x >= y THEN x ELSE y
Xor(s, t) == IF s = t THEN 0 ELSE 1

NaN == [c |-> "nan", s |-> 0, m |-> 0, e |-> 0]
Inf(s) == [c |-> "inf", s |-> s, m |-> 0, e |-> 0]
Fin(s, m, e) == [c |-> "fin", s |-> s, m |-> m, e |-> e]
Zero(s) == Fin(s, 0, f64.emin)

IsNaN(x) == x.c = "nan"
IsInf(x) == x.c = "inf"
IsFinite(x) == x.c = "fin"
IsZero(x) == x.c = "fin" /\ x.m = 0

(***************************************************************************)
(* Round(s, m, e, sticky): the datum nearest to (-1)^s * (m + t) * 2^e,    *)
(* where 0 < t < 1 when sticky and t = 0 otherwise; ties go to the even    *)
(* significand; a result above the largest finite datum is an infinity.    *)
(* With sticky, m has at least p + 1 bits.  The steps are functions of     *)
(* values: RoundShift chooses the bits to drop, RoundUp rounds to nearest  *)
(* even, RoundPack renormalises a carry and detects overflow.              *)
(***************************************************************************)
RoundPack[s \in {0, 1}, q \in Nat, e \in Int] ==
    IF q = 0 THEN Zero(s)
    ELSE IF q = Pow2(f64.p)
         THEN (IF e + 1 > f64.emax THEN Inf(s) ELSE Fin(s, Pow2(f64.p - 1), e + 1))
    ELSE IF e > f64.emax THEN Inf(s)
    ELSE Fin(s, q, e)

RoundUp[s \in {0, 1}, q \in Nat, r \in Nat, half \in Nat, sticky \in BOOLEAN, e \in Int] ==
    RoundPack[s,
              IF r > half \/ (r = half /\ (sticky \/ q % 2 = 1)) THEN q + 1 ELSE q,
              e]

\* sh: the number of low bits of m to drop (to add, when negative).
RoundShift[s \in {0, 1}, m \in Nat, e \in Int, sticky \in BOOLEAN, sh \in Int] ==
    IF sh <= 0 THEN RoundPack[s, m * Pow2(-sh), e + sh]
    ELSE IF sh > BitLen(m) + 1 THEN Zero(s)
    ELSE RoundUp[s, m \div Pow2(sh), m % Pow2(sh), Pow2(sh - 1), sticky, e + sh]

Round(s, m, e, sticky) ==
    IF m = 0 THEN Zero(s)
    ELSE RoundShift[s, m, e, sticky, Max2(BitLen(m) - f64.p, f64.emin - e)]

\* An integer literal such as 1.0, 2.0, 6.0.
Lit(n) == Round(0, n, 0, FALSE)

\* Every f64 datum.
Float == [c : {"nan", "inf", "fin"}, s : {0, 1}, m : Nat, e : Int]

(***************************************************************************)
(* The f64 operators.  Each is a function of its operands' values (FxxOf)  *)
(* and an operator applying it, so that an operand expression is evaluated *)
(* once however often the operator's definition reads it.                  *)
(***************************************************************************)
FNeg(x) == IF IsNaN(x) THEN NaN ELSE [x EXCEPT !.s = 1 - x.s]

FMulOf[x \in Float, y \in Float] ==
    IF IsNaN(x) \/ IsNaN(y) THEN NaN
    ELSE IF (IsInf(x) /\ IsZero(y)) \/ (IsZero(x) /\ IsInf(y)) THEN NaN
    ELSE IF IsInf(x) \/ IsInf(y) THEN Inf(Xor(x.s, y.s))
    ELSE Round(Xor(x.s, y.s), x.m * y.m, x.e + y.e, FALSE)

\* f64 `*`
FMul(x, y) == FMulOf[x, y]

FDivOf[x \in Float, y \in Float] ==
    IF IsNaN(x) \/ IsNaN(y) THEN NaN
    ELSE IF (IsInf(x) /\ IsInf(y)) \/ (IsZero(x) /\ IsZero(y)) THEN NaN
    ELSE IF IsInf(x) \/ IsZero(y) THEN Inf(Xor(x.s, y.s))
    ELSE IF IsInf(y) \/ IsZero(x) THEN Zero(Xor(x.s, y.s))
    ELSE LET k == 2 * f64.p + 2
             n == x.m * Pow2(k)
         IN Round(Xor(x.s, y.s), n \div y.m, x.e - y.e - k, n % y.m # 0)

\* f64 `/`: never a fault; x/0 is an infinity, 0/0 and inf/inf are NaN.
FDiv(x, y) == FDivOf[x, y]

FAddOf[x \in Float, y \in Float] ==
    IF IsNaN(x) \/ IsNaN(y) THEN NaN
    ELSE IF IsInf(x) /\ IsInf(y) THEN (IF x.s = y.s THEN x ELSE NaN)
    ELSE IF IsInf(x) THEN x
    ELSE IF IsInf(y) THEN y
    ELSE LET e0 == Min2(x.e, y.e)
             vx == (IF x.s = 1 THEN -1 ELSE 1) * x.m * Pow2(x.e - e0)
             vy == (IF y.s = 1 THEN -1 ELSE 1) * y.m * Pow2(y.e - e0)
             v == vx + vy
         IN IF v = 0 THEN Zero(IF x.s = 1 /\ y.s = 1 THEN 1 ELSE 0)
            ELSE IF v < 0 THEN Round(1, -v, e0, FALSE)
            ELSE Round(0, v, e0, FALSE)

\* f64 `+`
FAdd(x, y) == FAddOf[x, y]

\* f64 `-`
FSub(x, y) == FAddOf[x, FNeg(y)]

\* f64 `==` (PartialEq): NaN equals nothing, the two zeros are equal.
FEq(x, y) ==
    IF IsNaN(x) \/ IsNaN(y) THEN FALSE
    ELSE IF IsZero(x) /\ IsZero(y) THEN TRUE
    ELSE x = y

(***************************************************************************)
(* f64::powf(x, y) for the exponents the source uses (n = 6.0 and          *)
(* 2.0 * n = 12.0: positive integers): x^k rounded once.  The odd part of  *)
(* the significand is raised exactly, so its k-th power must fit TLC's     *)
(* integers.                                                               *)
(***************************************************************************)
RECURSIVE OddPart(_)
OddPart(m) == IF m % 2 = 0 THEN OddPart(m \div 2) ELSE m

RECURSIVE TwoPart(_)
TwoPart(m) == IF m % 2 = 0 THEN 1 + TwoPart(m \div 2) ELSE 0

\* The integer an integer-valued datum stands for.
IntValue(y) == IF y.e >= 0 THEN y.m * Pow2(y.e) ELSE y.m \div Pow2(-y.e)

FPowfOf[x \in Float, y \in Float] ==
    LET k == IntValue(y)
        sk == IF k % 2 = 0 THEN 0 ELSE x.s
    IN IF IsNaN(x) THEN NaN
       ELSE IF IsInf(x) THEN Inf(sk)
       ELSE IF IsZero(x) THEN Zero(sk)
       ELSE LET ek == (x.e + TwoPart(x.m)) * k
            IN IF ek > f64.emax + f64.p THEN Inf(sk)
               ELSE Round(sk, IPow(OddPart(x.m), k), ek, FALSE)

FPowf(x, y) == FPowfOf[x, y]

\* A dyadic literal n / 2^k of sign sg.
Dy(sg, n, k) == Round(sg, n, -k, FALSE)

\* core::f64::consts::PI, rounded to the format (3.25).
PI == Fin(0, 13, -2)

(***************************************************************************)
(* f64::sin and f64::cos, correctly rounded, tabulated on the arguments    *)
(* the model evaluates them at: sin at PI / 2.0 only (1.0, as in f64), cos *)
(* at the angles of Angles.                                                *)
(***************************************************************************)
FSinOf[x \in Float] == CASE x = FDiv(PI, Lit(2)) -> Lit(1)

FSin(x) == FSinOf[x]

FCosOf[x \in Float] ==
    CASE IsNaN(x) -> NaN
      [] IsZero(x) -> Lit(1)
      [] x = Dy(0, 9, 4) -> Dy(0, 14, 4)
      [] x = Lit(1) -> Dy(0, 9, 4)
      [] x = FDiv(PI, Lit(2)) -> Dy(1, 14, 8)
      [] x = PI -> Dy(1, 1, 0)

FCos(x) == FCosOf[x]

(***************************************************************************)
(* crate::Error and crate::Result<T>.                                      *)
(***************************************************************************)
UnknownModel == "UnknownModel"
NumericalError == "NumericalError"
Ok(v) == [tag |-> "Ok", val |-> v, err |-> "-"]
Err(e) == [tag |-> "Err", val |-> <<>>, err |-> e]
Pending == [tag |-> "Pending", val |-> <<>>, err |-> "-"]

\* Option::None of Model::from_u8.
None == "None"

(***************************************************************************)
(* std::panic::catch_unwind(closure).map_err(Error::NumericalError): the   *)
(* closure's value, or NumericalError when the closure unwinds.            *)
(***************************************************************************)
catch_unwind(unwinds, value) == IF unwinds THEN Err(NumericalError) ELSE Ok(value)

(***************************************************************************)
(* thermal_conductivity_for_unidirectional_composite.rs                    *)
(***************************************************************************)
\* #[derive(Primitive)] enum Model { RuleOfMixtures = 1, Vanin = 2 }
conductivity_Model_from_u8(n) ==
    IF n = 1 THEN "RuleOfMixtures" ELSE IF n = 2 THEN "Vanin" ELSE None

\* k1 of the RuleOfMixtures arm (line 42).
rule_of_mixtures_k1(fibre_content, k_for_fiber, k_for_matrix) ==
    FAdd(FMul(fibre_content, k_for_fiber),
         FMul(FSub(Lit(1), fibre_content), k_for_matrix))

\* A slip: fibre and matrix conductivity exchanged in the harmonic mean.
rule_of_mixtures_k2_exchanged(fibre_content, k_for_fiber, k_for_matrix) ==
    FDiv(Lit(1), FAdd(FDiv(fibre_content, k_for_matrix),
                      FDiv(FSub(Lit(1), fibre_content), k_for_fiber)))

\* k2 of the RuleOfMixtures arm (line 43).
rule_of_mixtures_k2(fibre_content, k_for_fiber, k_for_matrix) ==
    FDiv(Lit(1), FAdd(FDiv(fibre_content, k_for_fiber),
                      FDiv(FSub(Lit(1), fibre_content), k_for_matrix)))

\* k3 of the RuleOfMixtures arm (line 44).
rule_of_mixtures_k3(fibre_content, k_for_fiber, k_for_matrix) ==
    FDiv(Lit(1), FAdd(FDiv(fibre_content, k_for_fiber),
                      FDiv(FSub(Lit(1), fibre_content), k_for_matrix)))

\* k1 of the Vanin arm (line 48).
vanin_k1(fibre_content, k_for_fiber, k_for_matrix) ==
    FAdd(FMul(fibre_content, k_for_fiber),
         FMul(FSub(Lit(1), fibre_content), k_for_matrix))

vanin_k_2_zero(fibre_content, k_for_fiber, k_for_matrix) ==
    FMul(k_for_matrix,
         FDiv(FAdd(FAdd(Lit(1), fibre_content),
                   FDiv(FMul(FSub(Lit(1), fibre_content), k_for_fiber), k_for_matrix)),
              FAdd(FSub(Lit(1), fibre_content),
                   FDiv(FMul(FSub(Lit(1), fibre_content), k_for_fiber), k_for_matrix))))

\* (1.0 - kf / km) / (1.0 - fc + (1.0 + fc) * kf / km)
vanin_ratio_a(fibre_content, k_for_fiber, k_for_matrix) ==
    FDiv(FSub(Lit(1), FDiv(k_for_fiber, k_for_matrix)),
         FAdd(FSub(Lit(1), fibre_content),
              FDiv(FMul(FAdd(Lit(1), fibre_content), k_for_fiber), k_for_matrix)))

\* (1.0 - kf / km) / (1.0 + kf / km)
vanin_ratio_c(k_for_fiber, k_for_matrix) ==
    FDiv(FSub(Lit(1), FDiv(k_for_fiber, k_for_matrix)),
         FAdd(Lit(1), FDiv(k_for_fiber, k_for_matrix)))

\* let n = 6.0;
vanin_n == Lit(6)

\* k2 of the Vanin arm (lines 53-69), operations in source order:
\* k_2_zero * (1.0 + n * n * (n - 1.0) * k_2_zero / km * (A) * (A)
\*             * (sin * sin) / powf(n) * (fc * fc - powf(2.0 * n) * (C) * (C)))
vanin_k2(n, k_2_zero, fibre_content, k_for_fiber, k_for_matrix) ==
    FMul(k_2_zero,
         FAdd(Lit(1),
              FMul(FDiv(FMul(FMul(FMul(FDiv(FMul(FMul(FMul(n, n), FSub(n, Lit(1))),
                                                    k_2_zero),
                                               k_for_matrix),
                                          vanin_ratio_a(fibre_content, k_for_fiber, k_for_matrix)),
                                     vanin_ratio_a(fibre_content, k_for_fiber, k_for_matrix)),
                                FMul(FSin(FDiv(PI, Lit(2))), FSin(FDiv(PI, Lit(2))))),
                        FPowf(FDiv(PI, Lit(2)), n)),
                   FSub(FMul(fibre_content, fibre_content),
                        FMul(FMul(FPowf(fibre_content, FMul(Lit(2), n)),
                                  vanin_ratio_c(k_for_fiber, k_for_matrix)),
                             vanin_ratio_c(k_for_fiber, k_for_matrix))))))

\* A slip in the repeated expression: powf(n) for powf(2.0 * n).
vanin_k3_slip(n, k_2_zero, fibre_content, k_for_fiber, k_for_matrix) ==
    FMul(k_2_zero,
         FAdd(Lit(1),
              FMul(FDiv(FMul(FMul(FMul(FDiv(FMul(FMul(FMul(n, n), FSub(n, Lit(1))),
                                                    k_2_zero),
                                               k_for_matrix),
                                          vanin_ratio_a(fibre_content, k_for_fiber, k_for_matrix)),
                                     vanin_ratio_a(fibre_content, k_for_fiber, k_for_matrix)),
                                FMul(FSin(FDiv(PI, Lit(2))), FSin(FDiv(PI, Lit(2))))),
                        FPowf(FDiv(PI, Lit(2)), n)),
                   FSub(FMul(fibre_content, fibre_content),
                        FMul(FMul(FPowf(fibre_content, n),
                                  vanin_ratio_c(k_for_fiber, k_for_matrix)),
                             vanin_ratio_c(k_for_fiber, k_for_matrix))))))

\* k3 of the Vanin arm (lines 70-86): the source repeats the expression.
vanin_k3(n, k_2_zero, fibre_content, k_for_fiber, k_for_matrix) ==
    FMul(k_2_zero,
         FAdd(Lit(1),
              FMul(FDiv(FMul(FMul(FMul(FDiv(FMul(FMul(FMul(n, n), FSub(n, Lit(1))),
                                                    k_2_zero),
                                               k_for_matrix),
                                          vanin_ratio_a(fibre_content, k_for_fiber, k_for_matrix)),
                                     vanin_ratio_a(fibre_content, k_for_fiber, k_for_matrix)),
                                FMul(FSin(FDiv(PI, Lit(2))), FSin(FDiv(PI, Lit(2))))),
                        FPowf(FDiv(PI, Lit(2)), n)),
                   FSub(FMul(fibre_content, fibre_content),
                        FMul(FMul(FPowf(fibre_content, FMul(Lit(2), n)),
                                  vanin_ratio_c(k_for_fiber, k_for_matrix)),
                             vanin_ratio_c(k_for_fiber, k_for_matrix))))))

\* The closure of lines 40-89: match model { ... } => [k1, k2, k3].
conductivity_closure(model, fibre_content, k_for_fiber, k_for_matrix) ==
    IF model = "RuleOfMixtures"
    THEN <<rule_of_mixtures_k1(fibre_content, k_for_fiber, k_for_matrix),
           rule_of_mixtures_k2(fibre_content, k_for_fiber, k_for_matrix),
           rule_of_mixtures_k3(fibre_content, k_for_fiber, k_for_matrix)>>
    ELSE <<vanin_k1(fibre_content, k_for_fiber, k_for_matrix),
           vanin_k2(vanin_n, vanin_k_2_zero(fibre_content, k_for_fiber, k_for_matrix),
                    fibre_content, k_for_fiber, k_for_matrix),
           vanin_k3(vanin_n, vanin_k_2_zero(fibre_content, k_for_fiber, k_for_matrix),
                    fibre_content, k_for_fiber, k_for_matrix)>>

\* A slip: arithmetic that faults on a zero divisor, as integer division does.
conductivity_unwinds_zero_divisor(model, fibre_content, k_for_fiber, k_for_matrix) ==
    IsZero(k_for_matrix) \/ IsZero(k_for_fiber)

\* Whether the closure of lines 40-89 unwinds: it holds f64 operators, sin
\* and powf only, and none of them panics (a zero divisor gives an infinity
\* or NaN).
conductivity_unwinds(model, fibre_content, k_for_fiber, k_for_matrix) == FALSE

(***************************************************************************)
(* thermal_expansion_for_honeycomb.rs                                      *)
(***************************************************************************)
\* #[derive(Primitive)] enum Model { Vanin = 1 }
honeycomb_Model_from_u8(n) == IF n = 1 THEN "Vanin" ELSE None

\* alpha2 = (h / l * alpha - angle.cos() * alpha) / (h / l - angle.cos())
honeycomb_alpha2(l_cell_side_size, h_cell_side_size, angle, alpha_for_honeycomb) ==
    FDiv(FSub(FMul(FDiv(h_cell_side_size, l_cell_side_size), alpha_for_honeycomb),
              FMul(FCos(angle), alpha_for_honeycomb)),
         FSub(FDiv(h_cell_side_size, l_cell_side_size), FCos(angle)))

(***************************************************************************)
(* Exact arithmetic: a rational n / d with d > 0, in lowest terms; d = 0   *)
(* is "undefined" (a division by zero), and stays undefined.               *)
(***************************************************************************)
RECURSIVE Gcd(_, _)
Gcd(x, y) == IF y = 0 THEN x ELSE Gcd(y, x % y)

Abs(x) == IF x < 0 THEN -x ELSE x

QUndefined == [n |-> 0, d |-> 0]

QOf[n \in Int, d \in Int] ==
    IF d = 0 THEN QUndefined
    ELSE [n |-> (IF d < 0 THEN -n ELSE n) \div Gcd(Abs(n), Abs(d)),
          d |-> Abs(d) \div Gcd(Abs(n), Abs(d))]

Q(n, d) == QOf[n, d]

\* The rational a finite datum stands for.
ToQ(x) ==
    IF x.e >= 0 THEN Q((IF x.s = 1 THEN -1 ELSE 1) * x.m * Pow2(x.e), 1)
    ELSE Q((IF x.s = 1 THEN -1 ELSE 1) * x.m, Pow2(-x.e))

Rational == [n : Int, d : Nat]

QMulOf[x \in Rational, y \in Rational] ==
    IF x.d = 0 \/ y.d = 0 THEN QUndefined
    ELSE Q((x.n \div Gcd(Abs(x.n), y.d)) * (y.n \div Gcd(Abs(y.n), x.d)),
           (x.d \div Gcd(Abs(y.n), x.d)) * (y.d \div Gcd(Abs(x.n), y.d)))

QMul(x, y) == QMulOf[x, y]

QSubOf[x \in Rational, y \in Rational] ==
    IF x.d = 0 \/ y.d = 0 THEN QUndefined
    ELSE Q(x.n * (y.d \div Gcd(x.d, y.d)) - y.n * (x.d \div Gcd(x.d, y.d)),
           x.d * (y.d \div Gcd(x.d, y.d)))

QSub(x, y) == QSubOf[x, y]

QDivOf[x \in Rational, y \in Rational] ==
    IF x.d = 0 \/ y.d = 0 \/ y.n = 0 THEN QUndefined
    ELSE QMulOf[x, Q(y.d, y.n)]

QDiv(x, y) == QDivOf[x, y]

\* A slip: `+` for the `-` of the numerator.
honeycomb_alpha2_exact_plus(l, h, cos_angle, alpha) ==
    QDiv(QSub(QMul(QDiv(h, l), alpha), QMul(QSub(Q(0, 1), cos_angle), alpha)),
         QSub(QDiv(h, l), cos_angle))

\* The expression of alpha2 (lines 24-26) in exact arithmetic, on the
\* values h, l, alpha and cos_angle = angle.cos().
honeycomb_alpha2_exact(l, h, cos_angle, alpha) ==
    QDiv(QSub(QMul(QDiv(h, l), alpha), QMul(cos_angle, alpha)),
         QSub(QDiv(h, l), cos_angle))

\* A slip: the wall thickness takes the place of the cell height.
honeycomb_closure_wall(model, l_cell_side_size, h_cell_side_size, wall_thickness, angle, alpha_for_honeycomb) ==
    <<alpha_for_honeycomb,
      honeycomb_alpha2(l_cell_side_size, wall_thickness, angle, alpha_for_honeycomb),
      alpha_for_honeycomb>>

\* The closure of lines 21-30.
honeycomb_closure(model, l_cell_side_size, h_cell_side_size, wall_thickness, angle, alpha_for_honeycomb) ==
    <<alpha_for_honeycomb,
      honeycomb_alpha2(l_cell_side_size, h_cell_side_size, angle, alpha_for_honeycomb),
      alpha_for_honeycomb>>

\* Whether the closure of lines 21-30 unwinds: f64 operators and cos only.
honeycomb_unwinds(model, l_cell_side_size, h_cell_side_size, wall_thickness, angle, alpha_for_honeycomb) == FALSE

(***************************************************************************)
(* thermal_expansion_for_unidirectional_composite.rs                       *)
(***************************************************************************)
\* A slip: the discriminants of the conductivity enum, {1, 2}.
expansion_Model_from_u8_two_models(n) == IF n = 1 \/ n = 2 THEN "Vanin" ELSE None

\* #[derive(Primitive)] enum Model { Vanin = 1 }
expansion_Model_from_u8(n) == IF n = 1 THEN "Vanin" ELSE None

\* The closure of lines 49-55: (g_for_fiber, g_for_matrix, chi_for_fiber,
\* chi_for_matrix).
shear_chi_closure(e_for_fiber, nu_for_fiber, e_for_matrix, nu_for_matrix) ==
    [g_for_fiber |-> FDiv(e_for_fiber, FMul(Lit(2), FAdd(Lit(1), nu_for_fiber))),
     g_for_matrix |-> FDiv(e_for_matrix, FMul(Lit(2), FAdd(Lit(1), nu_for_matrix))),
     chi_for_fiber |-> FSub(Lit(3), FMul(Lit(4), nu_for_fiber)),
     chi_for_matrix |-> FSub(Lit(3), FMul(Lit(4), nu_for_matrix))]

\* Whether the closure of lines 49-55 unwinds: f64 operators only.
shear_chi_unwinds(e_for_fiber, nu_for_fiber, e_for_matrix, nu_for_matrix) == FALSE

\* A slip: the caller's own number_of_model is passed on.
collaborator_arguments_own_model(p) ==
    [number_of_model |-> p.number_of_model,
     fibre_content |-> p.fibre_content,
     e_for_fiber |-> p.e_for_fiber,
     nu_for_fiber |-> p.nu_for_fiber,
     e_for_matrix |-> p.e_for_matrix,
     nu_for_matrix |-> p.nu_for_matrix]

\* The arguments of the call of lines 57-64: the literal 2, then the caller's
\* own values.
collaborator_arguments(p) ==
    [number_of_model |-> 2,
     fibre_content |-> p.fibre_content,
     e_for_fiber |-> p.e_for_fiber,
     nu_for_fiber |-> p.nu_for_fiber,
     e_for_matrix |-> p.e_for_matrix,
     nu_for_matrix |-> p.nu_for_matrix]

\* A slip: `.map_err(|_| Error::NumericalError)?`, every error renamed.
question_mark_renamed(r) == Err(NumericalError)

\* The `?` of line 64 on an Err: return Err(From::from(e)), the same error.
question_mark(r) == Err(r.err)

\* let nu21 = a[3] * a[0] / a[1];
expansion_nu21(a) == FDiv(FMul(a[3], a[0]), a[1])

\* let nu31 = a[4] * a[0] / a[2];
expansion_nu31(a) == FDiv(FMul(a[4], a[0]), a[2])

\* alpha1, lines 70-83.
expansion_alpha1(p, g, a) ==
    LET num == FMul(FMul(FMul(FMul(Lit(8), g.g_for_matrix),
                              FSub(p.nu_for_fiber, p.nu_for_matrix)),
                         FSub(Lit(1), p.fibre_content)),
                    FAdd(Lit(1), p.nu_for_fiber))
        den == FAdd(FAdd(FSub(Lit(2), p.fibre_content),
                         FMul(p.fibre_content, g.chi_for_matrix)),
                    FDiv(FMul(FMul(FSub(Lit(1), p.fibre_content),
                                   FAdd(g.chi_for_fiber, Lit(1))),
                              g.g_for_matrix),
                         g.g_for_fiber))
    IN FSub(p.alpha_for_matrix,
            FMul(FDiv(FMul(FSub(p.alpha_for_matrix, p.alpha_for_fiber), p.fibre_content),
                      a[0]),
                 FAdd(p.e_for_fiber, FDiv(num, den))))

\* alpha2, lines 84-88.
expansion_alpha2(p, alpha1, nu21) ==
    FSub(FAdd(p.alpha_for_matrix, FMul(FSub(p.alpha_for_matrix, alpha1), nu21)),
         FDiv(FMul(FMul(FSub(p.alpha_for_matrix, p.alpha_for_fiber),
                        FAdd(Lit(1), p.nu_for_fiber)),
                   FSub(p.nu_for_matrix, nu21)),
              FSub(p.nu_for_matrix, p.nu_for_fiber)))

\* A slip in the parallel expression: `+` for the `-` before the quotient.
expansion_alpha3_slip(p, alpha1, nu31) ==
    FAdd(FAdd(p.alpha_for_matrix, FMul(FSub(p.alpha_for_matrix, alpha1), nu31)),
         FDiv(FMul(FMul(FSub(p.alpha_for_matrix, p.alpha_for_fiber),
                        FAdd(Lit(1), p.nu_for_fiber)),
                   FSub(p.nu_for_matrix, nu31)),
              FSub(p.nu_for_matrix, p.nu_for_fiber)))

\* alpha3, lines 89-93.
expansion_alpha3(p, alpha1, nu31) ==
    FSub(FAdd(p.alpha_for_matrix, FMul(FSub(p.alpha_for_matrix, alpha1), nu31)),
         FDiv(FMul(FMul(FSub(p.alpha_for_matrix, p.alpha_for_fiber),
                        FAdd(Lit(1), p.nu_for_fiber)),
                   FSub(p.nu_for_matrix, nu31)),
              FSub(p.nu_for_matrix, p.nu_for_fiber)))

\* The closure of lines 65-97.
expansion_closure(model, p, g, a) ==
    LET alpha1 == expansion_alpha1(p, g, a)
    IN <<alpha1,
         expansion_alpha2(p, alpha1, expansion_nu21(a)),
         expansion_alpha3(p, alpha1, expansion_nu31(a))>>

\* Whether the closure of lines 65-97 unwinds: f64 operators and constant
\* indices 0..4 into a [f64; 5] only.
expansion_unwinds(model, p, g, a) == FALSE

(***************************************************************************)
(* crate::elastic_modules_for_unidirectional_composite: what a call may    *)
(* return, an error of either kind or five moduli                          *)
(* [e1, e2, e3, nu21_num, nu31_num] (indices 0..4).                        *)
(***************************************************************************)
Moduli(e1, e2, e3, nu21_num, nu31_num) ==
    [i \in 0..4 |-> CASE i = 0 -> e1 [] i = 1 -> e2 [] i = 2 -> e3
                      [] i = 3 -> nu21_num [] i = 4 -> nu31_num]

CollaboratorReturns ==
    {Err(UnknownModel), Err(NumericalError)} \cup
    {Ok(Moduli(e1, e2, e3, n21, n31)) :
        e1 \in {Lit(24)}, e2 \in {Lit(6), Lit(7)}, e3 \in {Lit(6), Lit(7)},
        n21 \in {Dy(0, 1, 4), Dy(0, 3, 4)}, n31 \in {Dy(0, 1, 4), Dy(0, 3, 4)}} \cup
    {Ok(Moduli(Zero(0), Zero(0), Zero(0), Dy(0, 1, 4), Dy(0, 1, 4)))}

(***************************************************************************)
(* The callers' inputs.  number_of_model is a u8; the f64 parameters are   *)
(* not validated, so zeros, negative values, infinities and NaN occur.     *)
(***************************************************************************)
MaxModelNumber == 3
ModelNumbers == 0..MaxModelNumber

FibreContents == {Zero(0), Dy(0, 1, 2), Dy(0, 1, 1), Dy(0, 3, 2), Lit(1), Dy(0, 5, 2)}
FiberConductivities == {Zero(0), Lit(1), Lit(3), Lit(96), Inf(0), NaN}
MatrixConductivities == {Zero(0), Zero(1), Dy(0, 1, 1), Lit(1), Lit(3), Lit(7)}

CellSides == {Zero(0), Lit(1), Lit(2), Lit(9)}
CellHeights == {Lit(1), Lit(2), Lit(7)}
WallThicknesses == {Zero(0), Dy(0, 3, 3), NaN}
Angles == {Zero(0), Dy(0, 9, 4), Lit(1), FDiv(PI, Lit(2)), PI}
HoneycombAlphas == {Dy(0, 3, 8), Lit(1), Lit(5), Dy(1, 3, 1), NaN}

ExpansionFibreContents == {Zero(0), Dy(0, 1, 2), Lit(1)}
FiberModuli == {Lit(96), Zero(0)}
FiberPoissons == {Dy(0, 1, 2), Dy(0, 5, 4)}
FiberAlphas == {Dy(0, 1, 9), Lit(1)}
MatrixModuli == {Lit(5), Inf(0)}
MatrixPoissons == {Dy(0, 3, 4), Dy(0, 1, 2)}
MatrixAlphas == {Dy(0, 3, 8), Lit(1)}

conductivity == "thermal_conductivity_for_unidirectional_composite"
honeycomb == "thermal_expansion_for_honeycomb"
expansion == "thermal_expansion_for_unidirectional_composite"

NoArgs ==
    [number_of_model |-> 0,
     fibre_content |-> Zero(0), k_for_fiber |-> Zero(0), k_for_matrix |-> Zero(0),
     l_cell_side_size |-> Zero(0), h_cell_side_size |-> Zero(0),
     wall_thickness |-> Zero(0), angle |-> Zero(0), alpha_for_honeycomb |-> Zero(0),
     e_for_fiber |-> Zero(0), nu_for_fiber |-> Zero(0), alpha_for_fiber |-> Zero(0),
     e_for_matrix |-> Zero(0), nu_for_matrix |-> Zero(0), alpha_for_matrix |-> Zero(0)]

NoShearChi ==
    [g_for_fiber |-> Zero(0), g_for_matrix |-> Zero(0),
     chi_for_fiber |-> Zero(0), chi_for_matrix |-> Zero(0)]

(***************************************************************************)
(* State: one call at a time (the functions share nothing).                *)
(*   pc      where the running call stands                                 *)
(*   fn      the function called                                           *)
(*   args    its arguments                                                 *)
(*   model   `let model`, None before the resolution or when it fails      *)
(*   g       (g_for_fiber, g_for_matrix, chi_for_fiber, chi_for_matrix)    *)
(*   ret     what the collaborator returned (`a` when Ok)                  *)
(*   result  the value the call returns                                    *)
(*   trace   the steps the call has taken, in order                        *)
(*   calls   the argument lists of the collaborator's invocations          *)
(***************************************************************************)
VARIABLES pc, fn, args, model, g, ret, result, trace, calls

vars == <<pc, fn, args, model, g, ret, result, trace, calls>>

Init ==
    /\ pc = "idle"
    /\ fn = "-"
    /\ args = NoArgs
    /\ model = None
    /\ g = NoShearChi
    /\ ret = Pending
    /\ result = Pending
    /\ trace = <<>>
    /\ calls = <<>>

\* A caller calls thermal_conductivity_for_unidirectional_composite.
CallConductivity ==
    /\ pc = "idle"
    /\ \E n \in ModelNumbers, fc \in FibreContents,
          kf \in FiberConductivities, km \in MatrixConductivities :
        args' = [NoArgs EXCEPT !.number_of_model = n, !.fibre_content = fc,
                               !.k_for_fiber = kf, !.k_for_matrix = km]
    /\ fn' = conductivity
    /\ pc' = "resolve"
    /\ UNCHANGED <<model, g, ret, result, trace, calls>>

\* A caller calls thermal_expansion_for_honeycomb.
CallHoneycomb ==
    /\ pc = "idle"
    /\ \E n \in ModelNumbers, l \in CellSides, h \in CellHeights,
          w \in WallThicknesses, an \in Angles, al \in HoneycombAlphas :
        args' = [NoArgs EXCEPT !.number_of_model = n, !.l_cell_side_size = l,
                               !.h_cell_side_size = h, !.wall_thickness = w,
                               !.angle = an, !.alpha_for_honeycomb = al]
    /\ fn' = honeycomb
    /\ pc' = "resolve"
    /\ UNCHANGED <<model, g, ret, result, trace, calls>>

\* A caller calls thermal_expansion_for_unidirectional_composite.
CallExpansion ==
    /\ pc = "idle"
    /\ \E n \in ModelNumbers, fc \in ExpansionFibreContents,
          ef \in FiberModuli, nf \in FiberPoissons, af \in FiberAlphas,
          em \in MatrixModuli, nm \in MatrixPoissons, am \in MatrixAlphas :
        args' = [NoArgs EXCEPT !.number_of_model = n, !.fibre_content = fc,
                               !.e_for_fiber = ef, !.nu_for_fiber = nf,
                               !.alpha_for_fiber = af, !.e_for_matrix = em,
                               !.nu_for_matrix = nm, !.alpha_for_matrix = am]
    /\ fn' = expansion
    /\ pc' = "resolve"
    /\ UNCHANGED <<model, g, ret, result, trace, calls>>

\* Model::from_u8 of the called function's own enum.
Model_from_u8(f, n) ==
    IF f = conductivity THEN conductivity_Model_from_u8(n)
    ELSE IF f = honeycomb THEN honeycomb_Model_from_u8(n)
    ELSE expansion_Model_from_u8(n)

\* A slip: no early return, the None is only found by the later match.
after_resolve_no_return(f, m) == IF f = expansion THEN "shear_chi" ELSE "formula"

\* `.ok_or(Error::UnknownModel)?`: return at once on None, go on otherwise.
after_resolve(f, m) ==
    IF m = None THEN "done"
    ELSE IF f = expansion THEN "shear_chi" ELSE "formula"

\* The first statement of each function:
\* let model = Model::from_u8(number_of_model).ok_or(Error::UnknownModel)?;
Resolve ==
    /\ pc = "resolve"
    /\ LET m == Model_from_u8(fn, args.number_of_model)
           nxt == after_resolve(fn, m)
       IN /\ model' = m
          /\ pc' = nxt
          /\ result' = IF nxt = "done" THEN Err(UnknownModel) ELSE Pending
    /\ trace' = Append(trace, "resolve")
    /\ UNCHANGED <<fn, args, g, ret, calls>>

\* thermal_conductivity_for_unidirectional_composite, lines 40-90.
ConductivityFormula ==
    /\ pc = "formula"
    /\ fn = conductivity
    /\ result' = catch_unwind(
           conductivity_unwinds(model, args.fibre_content, args.k_for_fiber,
                                args.k_for_matrix),
           conductivity_closure(model, args.fibre_content, args.k_for_fiber,
                                args.k_for_matrix))
    /\ trace' = Append(trace, "formula")
    /\ pc' = "done"
    /\ UNCHANGED <<fn, args, model, g, ret, calls>>

\* thermal_expansion_for_honeycomb, lines 21-31.
HoneycombFormula ==
    /\ pc = "formula"
    /\ fn = honeycomb
    /\ result' = catch_unwind(
           honeycomb_unwinds(model, args.l_cell_side_size, args.h_cell_side_size,
                             args.wall_thickness, args.angle, args.alpha_for_honeycomb),
           honeycomb_closure(model, args.l_cell_side_size, args.h_cell_side_size,
                             args.wall_thickness, args.angle, args.alpha_for_honeycomb))
    /\ trace' = Append(trace, "formula")
    /\ pc' = "done"
    /\ UNCHANGED <<fn, args, model, g, ret, calls>>

\* thermal_expansion_for_unidirectional_composite, lines 48-56.
ShearChi ==
    /\ pc = "shear_chi"
    /\ LET r == catch_unwind(
                  shear_chi_unwinds(args.e_for_fiber, args.nu_for_fiber,
                                    args.e_for_matrix, args.nu_for_matrix),
                  shear_chi_closure(args.e_for_fiber, args.nu_for_fiber,
                                    args.e_for_matrix, args.nu_for_matrix))
       IN IF r.tag = "Err"
          THEN /\ result' = question_mark(r)
               /\ pc' = "done"
               /\ g' = g
          ELSE /\ g' = r.val
               /\ pc' = "collaborator"
               /\ result' = result
    /\ trace' = Append(trace, "shear_chi")
    /\ UNCHANGED <<fn, args, model, ret, calls>>

\* thermal_expansion_for_unidirectional_composite, lines 57-64.
Collaborator ==
    /\ pc = "collaborator"
    /\ \E r \in CollaboratorReturns :
        /\ ret' = r
        /\ IF r.tag = "Err"
           THEN /\ result' = question_mark(r)
                /\ pc' = "done"
           ELSE /\ result' = result
                /\ pc' = "alpha"
    /\ calls' = Append(calls, collaborator_arguments(args))
    /\ trace' = Append(trace, "collaborator")
    /\ UNCHANGED <<fn, args, model, g>>

\* thermal_expansion_for_unidirectional_composite, lines 65-98.
Alpha ==
    /\ pc = "alpha"
    /\ result' = catch_unwind(expansion_unwinds(model, args, g, ret.val),
                              expansion_closure(model, args, g, ret.val))
    /\ trace' = Append(trace, "alpha")
    /\ pc' = "done"
    /\ UNCHANGED <<fn, args, model, g, ret, calls>>

\* The call has returned `result`; nothing of it is kept.
Return ==
    /\ pc = "done"
    /\ pc' = "idle"
    /\ fn' = "-"
    /\ args' = NoArgs
    /\ model' = None
    /\ g' = NoShearChi
    /\ ret' = Pending
    /\ result' = Pending
    /\ trace' = <<>>
    /\ calls' = <<>>

Next ==
    \/ CallConductivity
    \/ CallHoneycomb
    \/ CallExpansion
    \/ Resolve
    \/ ConductivityFormula
    \/ HoneycombFormula
    \/ ShearChi
    \/ Collaborator
    \/ Alpha
    \/ Return

Spec == Init /\ [][Next]_vars

(***************************************************************************)
(* Properties.                                                             *)
(***************************************************************************)
\* The discriminants each enum defines, as the specification lists them.
DefinedModels(f) == IF f = conductivity THEN {1, 2} ELSE {1}

Returned == pc = "done"

IsPrefix(t, u) == Len(t) <= Len(u) /\ \A i \in 1..Len(t) : t[i] = u[i]

\* C1: whichever of the three functions is called, a model number that is
\* not a discriminant of that function's enum makes it return
\* Err(UnknownModel), whatever the other arguments are.
C1_UnknownModel ==
    (Returned /\ args.number_of_model \notin DefinedModels(fn))
        => result = Err(UnknownModel)

\* Model number 2, valid for the conductivity only, was refused by
\* thermal_expansion_for_unidirectional_composite.
C1_Witness ==
    /\ Returned
    /\ fn = expansion
    /\ args.number_of_model = 2
    /\ result = Err(UnknownModel)

\* C2: thermal_expansion_for_unidirectional_composite invokes the
\* collaborator at most once per call, always with sub-model 2 and with the
\* caller's fibre_content, e_for_fiber, nu_for_fiber, e_for_matrix and
\* nu_for_matrix unchanged.
C2_CollaboratorCall ==
    /\ Len(calls) <= 1
    /\ calls # <<>> => fn = expansion
    /\ \A i \in 1..Len(calls) :
        /\ calls[i].number_of_model = 2
        /\ calls[i].fibre_content = args.fibre_content
        /\ calls[i].e_for_fiber = args.e_for_fiber
        /\ calls[i].nu_for_fiber = args.nu_for_fiber
        /\ calls[i].e_for_matrix = args.e_for_matrix
        /\ calls[i].nu_for_matrix = args.nu_for_matrix

\* The collaborator was invoked by a caller whose own model number is 1.
C2_Witness ==
    /\ Len(calls) = 1
    /\ args.number_of_model = 1
    /\ calls[1].number_of_model = 2
    /\ ~IsZero(args.fibre_content)

\* C3: when the collaborator returns an error, the call returns that very
\* error, the alpha formulas are not evaluated and no value is returned.
C3_CollaboratorError ==
    (Returned /\ fn = expansion /\ ret.tag = "Err")
        => /\ result = ret
           /\ result.val = <<>>
           /\ \A i \in 1..Len(trace) : trace[i] # "alpha"

\* The collaborator failed with UnknownModel and the call returned it.
C3_Witness ==
    /\ Returned
    /\ fn = expansion
    /\ ret = Err(UnknownModel)
    /\ result = Err(UnknownModel)
    /\ trace = <<"resolve", "shear_chi", "collaborator">>

\* C4: thermal_expansion_for_honeycomb with model 1 returns alpha1 and
\* alpha3 equal to alpha_for_honeycomb itself, and a call that differs in
\* wall_thickness only returns the same triple.
C4_Honeycomb ==
    (Returned /\ fn = honeycomb /\ args.number_of_model = 1)
        => /\ result.tag = "Ok"
           /\ result.val[1] = args.alpha_for_honeycomb
           /\ result.val[3] = args.alpha_for_honeycomb
           /\ \A w \in WallThicknesses :
                result = catch_unwind(
                    honeycomb_unwinds(model, args.l_cell_side_size,
                                      args.h_cell_side_size, w, args.angle,
                                      args.alpha_for_honeycomb),
                    honeycomb_closure(model, args.l_cell_side_size,
                                      args.h_cell_side_size, w, args.angle,
                                      args.alpha_for_honeycomb))

\* A call with a non-zero wall thickness, whose alpha2 the geometry moved
\* away from alpha by rounding.
C4_Witness ==
    /\ Returned
    /\ fn = honeycomb
    /\ args.number_of_model = 1
    /\ args.wall_thickness = Dy(0, 3, 3)
    /\ result.tag = "Ok"
    /\ IsFinite(result.val[2])
    /\ result.val[2] # args.alpha_for_honeycomb

\* C5: the conductivity and the honeycomb function never return
\* NumericalError; with a valid model number they return three values, NaN
\* and infinities among them.  NumericalError is returned only for a fault,
\* which in this model only the collaborator reports.
C5_NoNumericalError ==
    /\ (Returned /\ fn \in {conductivity, honeycomb})
         => /\ result.err # NumericalError
            /\ model # None => (result.tag = "Ok" /\ Len(result.val) = 3)
    /\ result.err = NumericalError
         => (fn = expansion /\ ret = Err(NumericalError))

\* RuleOfMixtures with k_for_matrix = 0.0: a result holding NaN or an
\* infinity was returned as Ok.
C5_Witness ==
    /\ Returned
    /\ fn = conductivity
    /\ model = "RuleOfMixtures"
    /\ IsZero(args.k_for_matrix)
    /\ result.tag = "Ok"
    /\ \E i \in 1..3 : IsNaN(result.val[i]) \/ IsInf(result.val[i])

\* fibre_content * k_for_fiber + (1.0 - fibre_content) * k_for_matrix
ArithmeticMean(p) ==
    FAdd(FMul(p.fibre_content, p.k_for_fiber),
         FMul(FSub(Lit(1), p.fibre_content), p.k_for_matrix))

\* C6: under both conductivity models k2 and k3 are the same value (equal
\* under `==` unless both are NaN), and k1 is the volume-weighted arithmetic
\* mean.
C6_TransverseConductivity ==
    (Returned /\ fn = conductivity /\ result.tag = "Ok")
        => /\ result.val[2] = result.val[3]
           /\ ~IsNaN(result.val[2]) => FEq(result.val[2], result.val[3])
           /\ result.val[1] = ArithmeticMean(args)

\* A Vanin result with finite, non-zero k2 that differs from k1.
C6_Witness ==
    /\ Returned
    /\ fn = conductivity
    /\ model = "Vanin"
    /\ result.tag = "Ok"
    /\ IsFinite(result.val[2])
    /\ ~IsZero(result.val[2])
    /\ result.val[2] # result.val[1]
    /\ args.fibre_content = Dy(0, 3, 2)

PositiveFinite(x) == IsFinite(x) /\ ~IsZero(x) /\ x.s = 0

\* C8 as stated, for positive finite conductivities: RuleOfMixtures returns
\* [km, km, km] at fibre_content = 0 and [kf, kf, kf] at fibre_content = 1.
C8_Original ==
    (Returned /\ fn = conductivity /\ model = "RuleOfMixtures"
       /\ PositiveFinite(args.k_for_fiber) /\ PositiveFinite(args.k_for_matrix))
        => /\ args.fibre_content = Lit(0)
                => \A i \in 1..3 : FEq(result.val[i], args.k_for_matrix)
           /\ args.fibre_content = Lit(1)
                => \A i \in 1..3 : FEq(result.val[i], args.k_for_fiber)

\* 1.0 / (1.0 / k)
TwiceInverted(k) == FDiv(Lit(1), FDiv(Lit(1), k))

\* C8 amended: at fibre_content = 0, with k_for_fiber finite and non-zero
\* and k_for_matrix finite, k1 == k_for_matrix and k2 and k3 are
\* 1.0 / (1.0 / k_for_matrix), two rounded divisions away from k_for_matrix;
\* at fibre_content = 1 the same with fibre and matrix exchanged.
C8_Boundaries ==
    (Returned /\ fn = conductivity /\ model = "RuleOfMixtures"
       /\ IsFinite(args.k_for_fiber) /\ IsFinite(args.k_for_matrix))
        => /\ (args.fibre_content = Lit(0) /\ ~IsZero(args.k_for_fiber))
                => /\ FEq(result.val[1], args.k_for_matrix)
                   /\ result.val[2] = TwiceInverted(args.k_for_matrix)
                   /\ result.val[3] = TwiceInverted(args.k_for_matrix)
           /\ (args.fibre_content = Lit(1) /\ ~IsZero(args.k_for_matrix))
                => /\ FEq(result.val[1], args.k_for_fiber)
                   /\ result.val[2] = TwiceInverted(args.k_for_fiber)
                   /\ result.val[3] = TwiceInverted(args.k_for_fiber)

\* fibre_content = 1 and k_for_fiber = 96.0: k1 is 96.0 and k2 is the twice
\* inverted value, which is not.
C8_Witness ==
    /\ Returned
    /\ fn = conductivity
    /\ model = "RuleOfMixtures"
    /\ args.fibre_content = Lit(1)
    /\ args.k_for_fiber = Lit(96)
    /\ args.k_for_matrix = Lit(3)
    /\ result.val[1] = Lit(96)
    /\ result.val[2] = TwiceInverted(Lit(96))
    /\ result.val[2] # Lit(96)

\* C9: the model number is resolved first.  With an invalid number the
\* call returns UnknownModel after that one step: no formula is evaluated
\* and the collaborator is not invoked.  With a valid number the steps come
\* in the order resolve, shear moduli / chi, collaborator, alpha formulas.
C9_Order ==
    /\ fn = expansion
         => IsPrefix(trace, <<"resolve", "shear_chi", "collaborator", "alpha">>)
    /\ fn \in {conductivity, honeycomb}
         => IsPrefix(trace, <<"resolve", "formula">>)
    /\ (trace # <<>> /\ args.number_of_model \notin DefinedModels(fn))
         => /\ Returned
            /\ trace = <<"resolve">>
            /\ calls = <<>>
            /\ result = Err(UnknownModel)
    /\ (Returned /\ fn = expansion /\ result.tag = "Ok")
         => trace = <<"resolve", "shear_chi", "collaborator", "alpha">>

\* Model number 0 with nu_for_matrix = nu_for_fiber, where alpha2 would
\* divide by zero: UnknownModel after the resolution alone.
C9_Witness ==
    /\ Returned
    /\ fn = expansion
    /\ args.number_of_model = 0
    /\ args.nu_for_matrix = args.nu_for_fiber
    /\ trace = <<"resolve">>
    /\ calls = <<>>
    /\ result = Err(UnknownModel)

ExactCase ==
    /\ Returned
    /\ fn = honeycomb
    /\ result.tag = "Ok"
    /\ IsFinite(args.l_cell_side_size) /\ ~IsZero(args.l_cell_side_size)
    /\ IsFinite(args.h_cell_side_size)
    /\ IsFinite(args.angle)
    /\ IsFinite(args.alpha_for_honeycomb)

ExactAlpha2 ==
    honeycomb_alpha2_exact(ToQ(args.l_cell_side_size), ToQ(args.h_cell_side_size),
                           ToQ(FCos(args.angle)), ToQ(args.alpha_for_honeycomb))

ExactRatio == QDiv(ToQ(args.h_cell_side_size), ToQ(args.l_cell_side_size))

====
